---- MODULE Spec2Model ----
(***************************************************************************)
(* Estacao de monitoramento de cheias (DispFilaTasks.c): five FreeRTOS     *)
(* tasks of equal priority around one queue, xQueueSensores.               *)
(*   vJoystickTask  samples two ADC channels, classifies, xQueueSend.      *)
(*   vDisplayTask, vLedRgbTask, vBuzzerTask, vMatrizLedTask each           *)
(*   xQueueReceive from the same queue and drive one output device.        *)
(*                                                                         *)
(* The tasks interleave in any order; nothing is assumed on how the delays  *)
(* of different tasks compare.  A turn of a task's loop, its closing delay  *)
(* included, is one step; vBuzzerTask, whose turn holds two delays with     *)
(* the tone changed in between, takes a step per delay.                     *)
(***************************************************************************)
EXTENDS Integers, Sequences, FiniteSets

VARIABLES
    queue,        \* xQueueSensores: the readings stored, oldest first
    raw_y,        \* vJoystickTask: last adc_read() of ADC0
    raw_x,        \* vJoystickTask: last adc_read() of ADC1
    ultimo,       \* the last `dados` vJoystickTask built (NoDados before the first)
    numerar,      \* whether the readings of this run are numbered in production order
    soAlerta,     \* whether every reading built so far has alerta = true
    pcBuzzer,     \* vBuzzerTask: 0 at its xQueueReceive, or the ms of the delay it is in
    dados,        \* per consumer: its local `dados` (NoDados before its first receive)
    ledR, ledG, ledB,   \* PWM levels of the RGB LED
    buzzerLevel,  \* PWM level of the buzzer channel
    matriz,       \* the words vMatrizLedTask pushed to the PIO state machine in its last turn
    display,      \* the banner last sent to the OLED
    buffer,       \* vDisplayTask: the bytes its two sprintf calls wrote last, from buffer[0] on
    escritores    \* per output device: the tasks that have written to it

vars == <<queue, raw_y, raw_x, ultimo, numerar, soAlerta, pcBuzzer, dados,
          ledR, ledG, ledB, buzzerLevel, matriz, display, buffer, escritores>>

-----------------------------------------------------------------------------
(* Bounds of the model *)

\* a run that numbers its readings 0, 1, ... ends with the reading numbered MaxSeq
MaxSeq == 5

-----------------------------------------------------------------------------
(* Program constants *)

QueueLength == 5          \* xQueueCreate(5, ...)
AdcMax == 4095            \* 12-bit adc_read(), divisor 4095.0f
Cem == 100                \* 100.0f
LIMIAR_AGUA == 70
LIMIAR_CHUVA == 80
NUM_LEDS == 25
portMAX_DELAY == -1       \* "wait without limit"
\* mutant: the send is given the same wait as the receives
SendTicksForEver == portMAX_DELAY

SendTicksToWait == 0      \* third argument of xQueueSend
ReceiveTicksToWait == portMAX_DELAY   \* third argument of every xQueueReceive

\* the delays, in ms
JoystickDelay == 100
DisplayDelay == 500       \* sleep_ms(500)
LedDelay == 200
BuzzerOnDelay == 200
BuzzerOffDelay == 300
BuzzerSilentDelay == 500
MatrizDelay == 500

LedFull == 255
BuzzerHalf == 6250
BuzzerWrap == 12500
\* a 32-bit colour word as its four bytes, most significant first
CorVermelho == <<0, 255, 0, 0>>   \* 0x00FF0000
CorVerde == <<255, 0, 0, 0>>      \* 0xFF000000

Consumers == {"Display", "LedRgb", "Buzzer", "Matriz"}
Tasks == {"Joystick"} \cup Consumers

\* the output devices: the OLED, the three PWM channels of the RGB LED, the
\* PWM channel of the buzzer, the PIO state machine of the matrix
Dispositivos == {"oled", "led", "buzzer", "matriz"}

\* mutant: the buzzer is driven through a pin of the RGB LED
DispositivoTrocado(t) ==
    CASE t = "Display" -> "oled"
      [] t = "LedRgb" -> "led"
      [] t = "Buzzer" -> "led"
      [] t = "Matriz" -> "matriz"

\* the device the code of each consumer writes to
Dispositivo(t) ==
    CASE t = "Display" -> "oled"
      [] t = "LedRgb" -> "led"
      [] t = "Buzzer" -> "buzzer"
      [] t = "Matriz" -> "matriz"



-----------------------------------------------------------------------------
(* float arithmetic: a positive float is <<m, e>>, value m * 2^e, with      *)
(* 2^23 <= m < 2^24 (24-bit significand); zero is <<0, 0>>.  Results are    *)
(* rounded to nearest, ties to even.                                        *)

Mant == 8388608           \* 2^23

FloatZero == <<0, 0>>

\* q + r/d, scaled by 2^e, rounded to a 24-bit significand
FloatRound(q, r, d, e) ==
    LET up == (2 * r > d) \/ (2 * r = d /\ q % 2 = 1)
        q2 == IF up THEN q + 1 ELSE q
    IN  IF q2 = 2 * Mant THEN <<Mant, e + 1>> ELSE <<q2, e>>

\* long division, one bit of the quotient per turn, until the quotient has 24 bits
RECURSIVE DivLoop(_, _, _, _)
DivLoop(q, r, e, d) ==
    IF q >= Mant THEN FloatRound(q, r, d, e)
    ELSE DivLoop(2 * q + ((2 * r) \div d), (2 * r) % d, e - 1, d)

\* (float)n / (float)d for integers 0 <= n, 0 < d, n \div d < 2^23
FloatDiv(n, d) ==
    IF n = 0 THEN FloatZero ELSE DivLoop(n \div d, n % d, 0, d)

RECURSIVE ShiftFor(_, _)
ShiftFor(p, s) == IF p \div (2 ^ s) < 2 * Mant THEN s ELSE ShiftFor(p, s + 1)

\* f * (float)k for a small positive integer k (m * k stays below 2^31)
FloatMulInt(f, k) ==
    IF f[1] = 0 THEN FloatZero
    ELSE LET p == f[1] * k
             s == ShiftFor(p, 0)
         IN  FloatRound(p \div (2 ^ s), p % (2 ^ s), 2 ^ s, f[2] + s)

\* f >= (float)k for an integer 1 <= k < 128
FloatGEInt(f, k) ==
    IF f[1] = 0 THEN FALSE
    ELSE IF f[2] >= 0 THEN TRUE
    ELSE IF -f[2] > 24 THEN FALSE
    ELSE f[1] >= k * (2 ^ (-f[2]))

-----------------------------------------------------------------------------
(* vJoystickTask: conversion and classification *)

\* (raw / 4095.0f) * 100.0f, for every value adc_read() returns
ConversaoADC == [raw \in 0..AdcMax |-> FloatMulInt(FloatDiv(raw, AdcMax), Cem)]

\* mutant: the factor 100.0f is forgotten
PercentualSemEscala(raw) == FloatDiv(raw, AdcMax)

Percentual(raw) == ConversaoADC[raw]

\* mutant: the rain threshold is forgotten
AlertaSoNivel(nivel, chuva) == FloatGEInt(nivel, LIMIAR_AGUA)

Alerta(nivel, chuva) ==
    FloatGEInt(nivel, LIMIAR_AGUA) \/ FloatGEInt(chuva, LIMIAR_CHUVA)

\* the struct `dados` built from two raw samples; seq is the production number
Leitura(ry, rx, n) ==
    LET nivel == Percentual(ry)
        chuva == Percentual(rx)
    IN  [nivel_agua |-> nivel, volume_chuva |-> chuva,
         alerta |-> Alerta(nivel, chuva), seq |-> n]

\* `dados` before anything was stored in it; never read by the tasks
NoDados == [nivel_agua |-> FloatZero, volume_chuva |-> FloatZero,
            alerta |-> FALSE, seq |-> -1]

\* the number of the next reading: one more than the last, starting at 0; a
\* run that does not number its readings gives them all 0
ProximoSeq == IF numerar THEN ultimo.seq + 1 ELSE 0

\* the raw samples adc_read() returns in the interleaving model: both sides
\* of each threshold
Amostras == {<<2866, 3275>>, <<2867, 3276>>}

-----------------------------------------------------------------------------
(* the FreeRTOS queue *)

\* mutant: the item is put at the front (xQueueSendToFront)
xQueueSendToFront(q, item) == IF Len(q) < QueueLength THEN <<item>> \o q ELSE q

\* mutant: a full queue gives up its oldest item to take the new one
xQueueSendSobrescreve(q, item) ==
    IF Len(q) < QueueLength THEN Append(q, item) ELSE Append(Tail(q), item)

\* xQueueSend(q, item, ticks): the queue afterwards (a full queue is left as it is)
xQueueSend(q, item) == IF Len(q) < QueueLength THEN Append(q, item) ELSE q

\* mutant: xQueueSend called with portMAX_DELAY
xQueueSendWaits(q) == Len(q) < QueueLength

\* xQueueSend returns at once with ticks = 0, and waits for room otherwise
xQueueSendReturns(q) == Len(q) < QueueLength \/ SendTicksToWait = 0

\* xQueueReceive(q, &dados, ticks) returns pdTRUE when an item is there; with
\* ticks = 0 it returns pdFALSE on an empty queue; otherwise it waits
xQueueReceiveReturns(q) == q # <<>> \/ ReceiveTicksToWait = 0

xQueueReceiveItem(q) == Head(q)
xQueueReceiveRest(q) == Tail(q)

\* the task's local state after a successful xQueueReceive
Recebe(c) ==
    /\ dados' = [dados EXCEPT ![c] = xQueueReceiveItem(queue)]
    /\ queue' = xQueueReceiveRest(queue)

\* the record of writers after task t has written to its device
Escreve(t) == [escritores EXCEPT ![Dispositivo(t)] = @ \cup {t}]

\* vBuzzerTask's positions: 0 is its xQueueReceive, ms > 0 a delay of ms milliseconds
Run == 0

-----------------------------------------------------------------------------
\* after main: the queue created empty, the five tasks at the top of their loops
Partida ==
    /\ queue = <<>>
    /\ ultimo = NoDados
    /\ soAlerta = TRUE
    /\ pcBuzzer = Run
    /\ dados = [c \in Consumers |-> NoDados]
    /\ ledR = 0 /\ ledG = 0 /\ ledB = 0
    /\ buzzerLevel = 0
    /\ matriz = <<>>
    /\ display = "apagado"
    /\ buffer = <<<<>>, <<>>>>
    /\ escritores = [d \in Dispositivos |-> {}]

Init == Partida /\ raw_y = 0 /\ raw_x = 0 /\ numerar = FALSE

\* the same start, for a run whose readings are numbered
SeqInit == Partida /\ raw_y = 0 /\ raw_x = 0 /\ numerar = TRUE

-----------------------------------------------------------------------------
(* vJoystickTask, one turn of its loop: sample, convert, classify, send, delay *)

\* the task can complete its turn (a numbered run ends with reading MaxSeq)
JoystickPronto ==
    /\ numerar => ultimo.seq < MaxSeq
    /\ xQueueSendReturns(queue)

JoystickTask ==
    /\ JoystickPronto
    /\ \E a \in Amostras :
          /\ raw_y' = a[1]
          /\ raw_x' = a[2]
          /\ ultimo' = Leitura(a[1], a[2], ProximoSeq)
          /\ queue' = xQueueSend(queue, ultimo')
    /\ soAlerta' = (soAlerta /\ ultimo'.alerta)
    /\ UNCHANGED <<numerar, pcBuzzer, dados, ledR, ledG, ledB, buzzerLevel, matriz, display, buffer,
                   escritores>>

(* vDisplayTask, one turn of its loop *)

\* char buffer[5]
BufferSize == 5

\* the value of the float f >= 0 in tenths, rounded to nearest (ties to even)
Decimos(f) ==
    IF f[1] = 0 THEN 0
    ELSE LET p == f[1] * 10
             d == 2 ^ (-f[2])
             q == p \div d
             r == p % d
         IN  IF 2 * r > d \/ (2 * r = d /\ q % 2 = 1) THEN q + 1 ELSE q

Digito(k) == <<"0", "1", "2", "3", "4", "5", "6", "7", "8", "9">>[k + 1]

\* the decimal digits of n >= 0, most significant first
RECURSIVE Digitos(_)
Digitos(n) == IF n < 10 THEN <<Digito(n)>> ELSE Digitos(n \div 10) \o <<Digito(n % 10)>>

\* the characters "%.1f%%" gives for f: integer part, point, one decimal, percent sign
Formata(f) ==
    Digitos(Decimos(f) \div 10) \o <<".", Digito(Decimos(f) % 10), "%">>

\* sprintf(buffer, "%.1f%%", f): the bytes stored from buffer[0] on, the
\* terminator last; sprintf does not know the size of buffer.  Bytes past
\* buffer[4] fall on the task's own stack, outside every output kept here.
sprintf(f) == Formata(f) \o <<"NUL">>

\* the third line of the header, as drawn
Banner(alerta) == IF alerta THEN "  EMERGENCIA" ELSE "   FreeRTOS"

DisplayTask ==
    /\ xQueueReceiveReturns(queue)
    /\ IF queue # <<>>
       THEN /\ Recebe("Display")
            /\ display' = Banner(xQueueReceiveItem(queue).alerta)
            /\ buffer' = <<sprintf(xQueueReceiveItem(queue).nivel_agua),
                           sprintf(xQueueReceiveItem(queue).volume_chuva)>>
            /\ escritores' = Escreve("Display")
       ELSE UNCHANGED <<queue, dados, display, buffer, escritores>>
    /\ UNCHANGED <<raw_y, raw_x, ultimo, numerar, soAlerta, pcBuzzer, ledR, ledG, ledB,
                   buzzerLevel, matriz>>

(* vLedRgbTask, one turn of its loop *)

\* mutant: the red channel is never driven
NivelRApagado(alerta) == 0

\* mutant: the green channel is left at full intensity in alert
NivelGCheio(alerta) == LedFull

NivelR(alerta) == IF alerta THEN LedFull ELSE 0
NivelG(alerta) == IF alerta THEN 0 ELSE LedFull
NivelB(alerta) == 0

LedRgbTask ==
    /\ xQueueReceiveReturns(queue)
    /\ IF queue # <<>>
       THEN /\ Recebe("LedRgb")
            /\ ledR' = NivelR(xQueueReceiveItem(queue).alerta)
            /\ ledG' = NivelG(xQueueReceiveItem(queue).alerta)
            /\ ledB' = NivelB(xQueueReceiveItem(queue).alerta)
            /\ escritores' = Escreve("LedRgb")
       ELSE UNCHANGED <<queue, dados, ledR, ledG, ledB, escritores>>
    /\ UNCHANGED <<raw_y, raw_x, ultimo, numerar, soAlerta, pcBuzzer, buzzerLevel, matriz, display, buffer>>

(* vBuzzerTask: the receive and what follows, up to the first delay *)

BuzzerTask ==
    /\ pcBuzzer = Run
    /\ xQueueReceiveReturns(queue)
    /\ IF queue # <<>>
       THEN /\ Recebe("Buzzer")
            /\ escritores' = Escreve("Buzzer")
            /\ IF xQueueReceiveItem(queue).alerta
               THEN /\ buzzerLevel' = BuzzerHalf
                    /\ pcBuzzer' = BuzzerOnDelay
               ELSE /\ buzzerLevel' = 0
                    /\ pcBuzzer' = BuzzerSilentDelay
       ELSE UNCHANGED <<queue, dados, buzzerLevel, pcBuzzer, escritores>>
    /\ UNCHANGED <<raw_y, raw_x, ultimo, numerar, soAlerta, ledR, ledG, ledB, matriz, display, buffer>>

(* vBuzzerTask: the 200 ms of tone are over, the tone is switched off for 300 ms *)

\* mutant: the level is not set back to 0 after the 200 ms
BuzzerOffSemDesligar ==
    /\ pcBuzzer = BuzzerOnDelay
    /\ pcBuzzer' = BuzzerOffDelay
    /\ UNCHANGED <<queue, raw_y, raw_x, ultimo, numerar, soAlerta, dados, ledR, ledG, ledB,
                   buzzerLevel, matriz, display, buffer, escritores>>

BuzzerOff ==
    /\ pcBuzzer = BuzzerOnDelay
    /\ buzzerLevel' = 0
    /\ escritores' = Escreve("Buzzer")
    /\ pcBuzzer' = BuzzerOffDelay
    /\ UNCHANGED <<queue, raw_y, raw_x, ultimo, numerar, soAlerta, dados, ledR, ledG, ledB,
                   matriz, display, buffer>>

(* vBuzzerTask: the last delay of the turn is over, back to xQueueReceive *)

BuzzerVolta ==
    /\ pcBuzzer \in {BuzzerOffDelay, BuzzerSilentDelay}
    /\ pcBuzzer' = Run
    /\ UNCHANGED <<queue, raw_y, raw_x, ultimo, numerar, soAlerta, dados, ledR, ledG, ledB,
                   buzzerLevel, matriz, display, buffer, escritores>>

(* vMatrizLedTask, one turn of its loop *)

\* mutant: the matrix is painted green whatever the reading
CorMatrizSoVerde(alerta) == CorVerde

CorMatriz(alerta) == IF alerta THEN CorVermelho ELSE CorVerde

\* mutant: the body of the loop runs once
RajadaDeUma(i, cor, enviado) == Append(enviado, cor)

\* for (i = 0; i < NUM_LEDS; i++) pio_sm_put_blocking(pio, sm, cor)
RECURSIVE Rajada(_, _, _)
Rajada(i, cor, enviado) ==
    IF i < NUM_LEDS THEN Rajada(i + 1, cor, Append(enviado, cor)) ELSE enviado

MatrizLedTask ==
    /\ xQueueReceiveReturns(queue)
    /\ IF queue # <<>>
       THEN /\ Recebe("Matriz")
            /\ matriz' = Rajada(0, CorMatriz(xQueueReceiveItem(queue).alerta), <<>>)
            /\ escritores' = Escreve("Matriz")
       ELSE UNCHANGED <<queue, dados, matriz, escritores>>
    /\ UNCHANGED <<raw_y, raw_x, ultimo, numerar, soAlerta, pcBuzzer, ledR, ledG, ledB,
                   buzzerLevel, display, buffer>>

Next ==
    \/ JoystickTask
    \/ DisplayTask
    \/ LedRgbTask
    \/ BuzzerTask
    \/ BuzzerOff
    \/ BuzzerVolta
    \/ MatrizLedTask

Spec == Init /\ [][Next]_vars

SeqSpec == SeqInit /\ [][Next]_vars

-----------------------------------------------------------------------------
(* Conversion and classification alone, over the range of adc_read() *)

\* raw samples next to the two thresholds and at the ends of the range
RawBorda == {0, 2866, 2867, 3275, 3276, AdcMax}

ClassifyInit ==
    /\ Partida
    /\ numerar = FALSE
    /\ \E y \in 0..AdcMax, x \in 0..AdcMax :
          /\ y \in RawBorda \/ x \in RawBorda
          /\ raw_y = y
          /\ raw_x = x

\* lines 97-111 applied to the samples in raw_y, raw_x
Classifica ==
    /\ ultimo = NoDados
    /\ ultimo' = Leitura(raw_y, raw_x, ProximoSeq)
    /\ soAlerta' = ultimo'.alerta
    /\ UNCHANGED <<queue, raw_y, raw_x, numerar, pcBuzzer, dados, ledR, ledG,
                   ledB, buzzerLevel, matriz, display, buffer, escritores>>

ClassifySpec == ClassifyInit /\ [][Classifica]_vars

-----------------------------------------------------------------------------
(* Scheduling.  The five tasks have the same priority and the scheduler     *)
(* shares the processor among the tasks that are ready, so a task that can  *)
(* go on does go on; a task waiting in xQueueReceive is made ready by an    *)
(* xQueueSend and is not passed over for ever.                              *)

\* only vJoystickTask is scheduled: the consumers may never read
JoystickFairSpec == Spec /\ WF_vars(JoystickTask)

FairSpec ==
    /\ Spec
    /\ WF_vars(JoystickTask)
    /\ SF_vars(DisplayTask)
    /\ SF_vars(LedRgbTask)
    /\ SF_vars(BuzzerTask)
    /\ SF_vars(MatrizLedTask)
    /\ WF_vars(BuzzerOff)
    /\ WF_vars(BuzzerVolta)

\* the receive step of each consumer
Tarefa(c) ==
    CASE c = "Display" -> DisplayTask
      [] c = "LedRgb" -> LedRgbTask
      [] c = "Buzzer" -> BuzzerTask
      [] c = "Matriz" -> MatrizLedTask

\* no consumer is obliged to read: any of them may stop for ever at its
\* xQueueReceive; a delay that was started does end
DegradedSpec ==
    /\ Spec
    /\ WF_vars(JoystickTask)
    /\ WF_vars(BuzzerOff)
    /\ WF_vars(BuzzerVolta)

-----------------------------------------------------------------------------
(* Where the tasks stand *)

\* the consumer is at its xQueueReceive
AtReceive(c) == c = "Buzzer" => pcBuzzer = Run

\* the consumer is at its xQueueReceive and the call does not return
Blocked(c) == AtReceive(c) /\ ~xQueueReceiveReturns(queue)

Periodic == {"LedRgb", "Buzzer", "Matriz"}

\* what the four outputs show when they follow alert value v
Reflete(v) ==
    /\ \A c \in Consumers : dados[c] # NoDados /\ dados[c].alerta = v
    /\ display = (IF v THEN "  EMERGENCIA" ELSE "   FreeRTOS")
    /\ ledR = (IF v THEN 255 ELSE 0)
    /\ ledG = (IF v THEN 0 ELSE 255)
    /\ ledB = 0
    /\ Len(matriz) = 25
    /\ \A i \in 1..Len(matriz) : matriz[i] = (IF v THEN <<0, 255, 0, 0>> ELSE <<255, 0, 0, 0>>)
    /\ v => pcBuzzer \in {Run, 200, 300}
    /\ ~v => buzzerLevel = 0 /\ pcBuzzer \in {Run, 500}

\* f <= g for two floats that are zero or positive
FloatLE(f, g) ==
    IF f[1] = 0 THEN TRUE
    ELSE IF g[1] = 0 THEN FALSE
    ELSE f[2] < g[2] \/ (f[2] = g[2] /\ f[1] <= g[1])

\* the float f, at most 100, differs from raw * 100 / 4095 by less than 0.0005
\* (compared in units of 1/4096, both sides multiplied by 4095)
PertoDoExato(f, raw) ==
    LET unidades == IF f[1] = 0 THEN 0 ELSE f[1] \div (2 ^ (-f[2] - 12))
        d == unidades * 4095 - raw * 409600
    IN  -4095 <= d /\ d <= 4095

\* what the output of consumer c shows when it follows alert value v
Mostra(c, v) ==
    /\ dados[c] # NoDados /\ dados[c].alerta = v
    /\ c = "Display" => display = (IF v THEN "  EMERGENCIA" ELSE "   FreeRTOS")
    /\ c = "LedRgb" => ledR = (IF v THEN 255 ELSE 0) /\ ledG = (IF v THEN 0 ELSE 255) /\ ledB = 0
    /\ c = "Matriz" =>
          /\ Len(matriz) = 25
          /\ \A i \in 1..Len(matriz) :
                matriz[i] = (IF v THEN <<0, 255, 0, 0>> ELSE <<255, 0, 0, 0>>)
    /\ c = "Buzzer" => IF v THEN pcBuzzer \in {Run, 200, 300}
                                ELSE buzzerLevel = 0 /\ pcBuzzer \in {Run, 500}

-----------------------------------------------------------------------------
(* The claims *)

\* C1 (SeqSpec): fan-out.  Once a reading has been published, every consumer
\* that has not yet obtained it (or a later one) obtains it or a later one on
\* its next read, whatever the other consumers have read: the reading it would
\* receive is there and is not older than the last published one.
FanOut ==
    \A c \in Consumers :
        dados[c].seq < ultimo.seq =>
            queue # <<>> /\ xQueueReceiveItem(queue).seq >= ultimo.seq

\* C2 (SeqSpec): latest value wins.  A publish always succeeds and overwrites
\* the unread value: there is never a backlog, and what a consumer reads is
\* the most recently published reading.
LatestValueWins ==
    /\ Len(queue) <= 1
    /\ queue # <<>> => xQueueReceiveItem(queue).seq = ultimo.seq

\* C3 (JoystickFairSpec): the producer never blocks on the consumers.  Even
\* if no consumer ever reads, vJoystickTask completes cycle after cycle,
\* for ever.
SamplerNeverBlocks == []<><<JoystickTask>>_vars

\* C3 witness: the queue is full and the last reading built is not in it: the
\* send found no room and returned, and the task went on.
SamplerWentOnWhenFull ==
    /\ Len(queue) = QueueLength
    /\ ultimo # NoDados
    /\ \A i \in 1..Len(queue) : queue[i] # ultimo

\* C4 (SeqSpec): per-consumer ordering.  With the readings numbered in
\* production order, the number of the reading a consumer holds never goes
\* down when it reads.
PerConsumerOrder ==
    [][\A c \in Consumers : dados'[c].seq >= dados[c].seq]_vars

\* C4 witness: three readings were produced and vLedRgbTask received them all,
\* one after the other, the last being number 2.
LedReadThree ==
    /\ ultimo.seq = 2
    /\ queue = <<>>
    /\ dados["LedRgb"].seq = 2
    /\ \A c \in Consumers \ {"LedRgb"} : dados[c] = NoDados

\* C5 (FairSpec): eventual convergence.  If from some point on every reading
\* produced has the same alert value v, then from some point on all four
\* outputs reflect v.
Convergence ==
    /\ <>[](ultimo # NoDados /\ ultimo.alerta) => <>[]Reflete(TRUE)
    /\ <>[](ultimo # NoDados /\ ~ultimo.alerta) => <>[]Reflete(FALSE)

\* C5 witness: the last reading produced is an alert and the four outputs
\* show the alert, after a reading without alert was produced.
AllShowAlert == ultimo.alerta /\ ~soAlerta /\ Reflete(TRUE)

\* C6 (Spec): the periodic consumers never wait for a new reading.  Whenever
\* vLedRgbTask, vBuzzerTask or vMatrizLedTask is at its read, the read
\* returns (with the last value, or a default before the first publish).
PeriodicNeverWait == \A c \in Periodic : ~Blocked(c)

\* C7 (Spec): alarm cadence under sustained alert.  While every reading
\* produced is an alert, the alarm, once it beeps, goes from the end of the
\* 300 ms of silence straight into the next 200 ms of tone: it is never found
\* waiting at its read.
CadenceNeverWaits ==
    (soAlerta /\ dados["Buzzer"] # NoDados) => ~Blocked("Buzzer")

\* C8 (Spec): alarm silencing.  Once the readings produced have changed to
\* alert = false, the alarm does not start a tone on a reading produced
\* before the change: whenever a tone starts, the last reading produced is an
\* alert.
NoStaleBeep ==
    [][(pcBuzzer = Run /\ pcBuzzer' = BuzzerOnDelay) => ultimo.alerta]_vars

\* C9 (ClassifySpec): classification.  alerta is true exactly when
\* raw_y / 4095 * 100 >= 70 or raw_x / 4095 * 100 >= 80, that is, when
\* raw_y >= 2867 or raw_x >= 3276.
Classification ==
    ultimo # NoDados =>
        /\ ultimo.alerta <=> (raw_y >= 2867 \/ raw_x >= 3276)
        /\ ultimo.alerta <=> (raw_y * 100 >= 70 * 4095 \/ raw_x * 100 >= 80 * 4095)

\* C9 witness: the level is just below its threshold, the rain exactly on its
\* own, and the reading is an alert.
AlertByRainAlone ==
    ultimo # NoDados /\ raw_y = 2866 /\ raw_x = 3276 /\ ultimo.alerta

IsolatedReads ==
    [][\A c \in Consumers :
          dados'[c] # dados[c] =>
              /\ queue' # <<>>
              /\ xQueueReceiveItem(queue') = xQueueReceiveItem(queue)]_vars

\* C12 (DegradedSpec): graceful degradation.  Whichever consumer h stops for
\* ever, vJoystickTask goes on sending, and each of the other three, as long
\* as it is scheduled, goes on receiving readings and brings its output to
\* the classification the readings settle on.
Degradation ==
    /\ []<><<JoystickTask>>_vars
    /\ \A h \in Consumers :
          (\A c \in Consumers \ {h} : SF_vars(Tarefa(c))) =>
              \A c \in Consumers \ {h} :
                  /\ []<><<Tarefa(c)>>_vars
                  /\ <>[](ultimo # NoDados /\ ultimo.alerta) => <>[]Mostra(c, TRUE)
                  /\ <>[](ultimo # NoDados /\ ~ultimo.alerta) => <>[]Mostra(c, FALSE)

\* C12 witness: vMatrizLedTask has never received anything, the readings went
\* from normal to alert, and the other three outputs show the alert.
ThreeShowAlertWithoutMatriz ==
    /\ dados["Matriz"] = NoDados /\ matriz = <<>>
    /\ ultimo.alerta /\ ~soAlerta
    /\ \A c \in Consumers \ {"Matriz"} : Mostra(c, TRUE)

\* C13 (Spec): exclusive device ownership.  In every reachable state the OLED
\* has been written by vDisplayTask only, the RGB LED channels by vLedRgbTask
\* only, the buzzer channel by vBuzzerTask only, the matrix by vMatrizLedTask
\* only; vJoystickTask has written to none.
ExclusiveOwnership ==
    /\ escritores["oled"] \subseteq {"Display"}
    /\ escritores["led"] \subseteq {"LedRgb"}
    /\ escritores["buzzer"] \subseteq {"Buzzer"}
    /\ escritores["matriz"] \subseteq {"Matriz"}

\* C13 witness: each of the four devices has been written to, by its task.
AllDevicesWritten ==
    /\ escritores["oled"] = {"Display"}
    /\ escritores["led"] = {"LedRgb"}
    /\ escritores["buzzer"] = {"Buzzer"}
    /\ escritores["matriz"] = {"Matriz"}
    /\ buzzerLevel = 6250

\* C14 (ClassifySpec): percentage range.  For raw samples ry, rx in 0..4095
\* the reading holds ry / 4095 * 100 and rx / 4095 * 100 (to the precision of
\* a float), both between 0 and 100, 0 for raw 0 and 100 for raw 4095, and a
\* larger raw sample never gives a smaller percentage.
PercentageRange ==
    ultimo # NoDados =>
        /\ PertoDoExato(ultimo.nivel_agua, raw_y)
        /\ PertoDoExato(ultimo.volume_chuva, raw_x)
        /\ FloatLE(FloatZero, ultimo.nivel_agua) /\ FloatLE(ultimo.nivel_agua, <<13107200, -17>>)
        /\ FloatLE(FloatZero, ultimo.volume_chuva) /\ FloatLE(ultimo.volume_chuva, <<13107200, -17>>)
        /\ raw_y = 0 => ultimo.nivel_agua = <<0, 0>>
        /\ raw_x = 0 => ultimo.volume_chuva = <<0, 0>>
        /\ raw_y = 4095 => ultimo.nivel_agua = <<13107200, -17>>
        /\ raw_x = 4095 => ultimo.volume_chuva = <<13107200, -17>>
        /\ raw_y > 0 => FloatLE(Percentual(raw_y - 1), ultimo.nivel_agua)
        /\ raw_x > 0 => FloatLE(Percentual(raw_x - 1), ultimo.volume_chuva)

\* C14 witness: the level sample at the top of the range and the rain sample
\* at the bottom give 100 and 0.
FullLevelNoRain ==
    /\ ultimo # NoDados /\ raw_y = 4095 /\ raw_x = 0
    /\ ultimo.nivel_agua = <<13107200, -17>>
    /\ ultimo.volume_chuva = <<0, 0>>

\* C15 (Spec): indicator colour.  Once vLedRgbTask has processed a reading,
\* the levels (red, green, blue) are (255, 0, 0) if that reading is an alert
\* and (0, 255, 0) if not; blue is 0 in every reachable state and red and
\* green are never both 255.
IndicatorColour ==
    /\ ledB = 0
    /\ ~(ledR = 255 /\ ledG = 255)
    /\ dados["LedRgb"] # NoDados =>
          <<ledR, ledG, ledB>> = (IF dados["LedRgb"].alerta THEN <<255, 0, 0>>
                                                           ELSE <<0, 255, 0>>)

\* C15 witness: vLedRgbTask has processed an alert and the LED is red, while
\* the last reading produced is without alert.
LedRedOnAlert ==
    /\ dados["LedRgb"] # NoDados /\ dados["LedRgb"].alerta
    /\ escritores["led"] = {"LedRgb"}
    /\ ledR = 255 /\ ledG = 0 /\ ledB = 0
    /\ ~ultimo.alerta

\* C16 (Spec): matrix burst.  In a turn in which it processes a reading,
\* vMatrizLedTask pushes exactly 25 words, all the red word 0x00FF0000 if the
\* reading is an alert and all the green word 0xFF000000 if not: never fewer,
\* never more than one burst in the turn that its 500 ms delay closes, never
\* the two colours together; without a reading nothing is pushed.
MatrixBurst ==
    /\ dados["Matriz"] = NoDados => matriz = <<>>
    /\ dados["Matriz"] # NoDados =>
          /\ Len(matriz) = 25
          /\ \A i \in 1..Len(matriz) :
                matriz[i] = (IF dados["Matriz"].alerta THEN <<0, 255, 0, 0>>
                                                       ELSE <<255, 0, 0, 0>>)

\* C16 witness: the matrix task processed an alert, after a reading without
\* alert was produced, and the words pushed are red from the first to the
\* twenty-fifth.
RedBurstPushed ==
    /\ dados["Matriz"] # NoDados /\ dados["Matriz"].alerta /\ ~soAlerta
    /\ Len(matriz) = 25
    /\ matriz[1] = <<0, 255, 0, 0>> /\ matriz[25] = <<0, 255, 0, 0>>

\* C17 (Spec): alarm duty.  In every reachable state the level of the buzzer
\* channel is 0 or 6250, half of the wrap 12500; it is 6250 exactly while
\* vBuzzerTask is in its 200 ms delay, which it enters only with an alert in
\* hand; it is 0 in the 300 ms delay that follows, in the 500 ms delay after
\* a reading without alert, and at the receive.
AlarmDuty ==
    /\ buzzerLevel \in {0, 6250}
    /\ buzzerLevel # 0 => 2 * buzzerLevel = BuzzerWrap /\ BuzzerWrap = 12500
    /\ pcBuzzer \in {Run, 200, 300, 500}
    /\ buzzerLevel = 6250 <=> pcBuzzer = 200
    /\ pcBuzzer \in {200, 300} => dados["Buzzer"] # NoDados /\ dados["Buzzer"].alerta
    /\ pcBuzzer = 500 => dados["Buzzer"] # NoDados /\ ~dados["Buzzer"].alerta

\* C17 witness: the 200 ms of tone are over and the task is in the 300 ms of
\* silence, level 0, the alert still in hand.
InBeepOff ==
    /\ pcBuzzer = 300 /\ buzzerLevel = 0
    /\ dados["Buzzer"] # NoDados /\ dados["Buzzer"].alerta

\* C18 (Spec): the display text fits its buffer.  Each of the two texts
\* vDisplayTask formats, terminator included, takes at most the 5 bytes of
\* `buffer`: nothing is written past buffer[4].
TextFitsBuffer ==
    \A i \in 1..2 : Len(buffer[i]) <= 5

\* C19 (Spec): bounded channel.  The queue never holds more than 5 readings;
\* when vJoystickTask sends while it holds 5, the new reading is discarded,
\* the 5 held and their order stay as they were, and the task is ready for
\* its next turn.
BoundedChannel ==
    /\ [](Len(queue) <= 5)
    /\ [][(JoystickTask /\ Len(queue) = 5) => (queue' = queue /\ JoystickPronto')]_vars

\* C19 witness: the queue holds 5 readings without alert and the last reading
\* built is an alert: it was discarded.
AlertDiscardedWhenFull ==
    /\ Len(queue) = 5
    /\ \A i \in 1..Len(queue) : ~queue[i].alerta
    /\ ultimo.alerta

====
